---- MODULE Spec2Model ----
(***************************************************************************)
(* lossypng: the two in-place pixel optimizers (optimizeForAverageFilter,  *)
(* optimizeForPaethFilter), their error-diffusion ring and the colour      *)
(* arithmetic.  Two revisions of the optimizers are modelled side by side: *)
(*   ver = "main"  the command (package main), loops start at x = 1, y = 1 *)
(*   ver = "lib"   the library (package lossypng, Compress), loops start   *)
(*                 at x = 0, y = 0 and read missing neighbours as 0        *)
(***************************************************************************)
EXTENDS Integers, Sequences, FiniteSets, TLC

\* ---------------------------------------------------------------- bounds
MaxWidth == 3
MaxHeight == 3

\* ------------------------------------------------------ program constants
deltaComponents == 4
errorRowCount == 3
filterWidth == 5
\* the centre one column to the right
filterCenterRight == filterWidth \div 2 + 1

filterCenter == 2

\* ------------------------------------------------------- Go integer rules
Abs(v) == IF v < 0 THEN -v ELSE v

\* Go's / on signed integers truncates toward zero
GoDiv(a, b) ==
  LET m == Abs(a) \div Abs(b)
  IN  IF (a < 0) = (b < 0) THEN m ELSE -m

\* Go's % takes the sign of the dividend
GoRem(a, b) == a - b * GoDiv(a, b)

Versions == {"main", "lib"}

\* the y loop starting at 0 in both revisions
FirstRowZero(v) == 0

\* for y := 1; ... in the command, for y := 0; ... in the library
FirstRow(v) == IF v = "main" THEN 1 ELSE 0

\* the x loop starting at 0 in both revisions
FirstColumnZero(v) == 0

\* for x := 1; ... in the command, for x := 0; ... in the library
FirstColumn(v) == IF v = "main" THEN 1 ELSE 0

\* ------------------------------------------------------------ colorDelta
Comps == 1..deltaComponents
ZeroDelta == [i \in Comps |-> 0]

\* func (a colorDelta) add(b colorDelta) colorDelta
add(a, b) == [i \in Comps |-> a[i] + b[i]]

\* ------------------------------------------------------- diffusion ring
\* rows that start with an error of 16 in every cell instead of zero
NewRowsStale(w) == [k \in 0..(errorRowCount - 1) |->
                      [i \in 0..(w + filterWidth - 2) |-> [c \in Comps |-> 16]]]

\* make([]colorDelta, width + filterWidth - 1), three times
NewRows(w) == [k \in 0..(errorRowCount - 1) |->
                 [i \in 0..(w + filterWidth - 2) |-> ZeroDelta]]

\* the ring columns diffuseColorDeltas(colorError, x) indexes
DiffuseIndexes(xx) == (xx - 2)..(xx + 2)

\* Floyd-Steinberg weights on four of the Sierra taps
DiffuseSumFloyd(ce, xx, i) ==
    7 * ce[0][xx - 1][i] + 1 * ce[1][xx - 1][i] + 5 * ce[1][xx][i] + 3 * ce[1][xx + 1][i]

\* Sierra dithering; ce[k] is the row slot k of the ring refers to
DiffuseSum(ce, xx, i) ==
    2 * ce[2][xx - 1][i] + 3 * ce[2][xx][i] + 2 * ce[2][xx + 1][i]
  + 2 * ce[1][xx - 2][i] + 4 * ce[1][xx - 1][i] + 5 * ce[1][xx][i]
  + 4 * ce[1][xx + 1][i] + 2 * ce[1][xx + 2][i]
  + 3 * ce[0][xx - 2][i] + 5 * ce[0][xx - 1][i]

\* the half weight added whatever the sign
RoundDivBiased(s) == GoDiv(s + 16, 32)

RoundDiv32(s) == GoDiv(IF s < 0 THEN s - 16 ELSE s + 16, 32)

\* the kernel of the first revision of the command: four deltas, weights 7, 1, 5, 3
diffuseFourDeltas(left, diagonal, up, right) ==
  [i \in Comps |->
     LET s == 7 * left[i] + 1 * diagonal[i] + 5 * up[i] + 3 * right[i]
     IN  GoDiv(IF s < 0 THEN s - 8 ELSE s + 8, 16)]

diffuseColorDeltas(ce, xx) == [i \in Comps |-> RoundDiv32(DiffuseSum(ce, xx, i))]

\* for i := 0; i < errorRowCount; i++ { colorError[(i+1)%errorRowCount] = colorError[i] }
\* the slots hold slice headers: the assignments run in order and copy references
RECURSIVE RotateFrom(_, _)
RotateFrom(r, i) ==
  IF i >= errorRowCount THEN r
  ELSE RotateFrom([r EXCEPT ![(i + 1) % errorRowCount] = r[i]], i + 1)

Rotate(r) == RotateFrom(r, 0)

\* ------------------------------------------- wide integers (uint64, int32)
\* The checker's integers are 32-bit, the program's products are not: a wide
\* natural number is five 15-bit limbs, least significant first.
Limb == 2^15

\* carry propagation from column i on, the carry coming in from below
RECURSIVE CarryFrom(_, _, _)
CarryFrom(c, i, carry) ==
  IF i > 5 THEN <<>>
  ELSE <<(c[i] + carry) % Limb>> \o CarryFrom(c, i + 1, (c[i] + carry) \div Limb)

\* the top limb keeps bits 60..63: uint64 arithmetic is modulo 2^64
Top64(a) == [a EXCEPT ![5] = a[5] % 16]

Carry(c) == Top64(CarryFrom(c, 1, 0))

Limbs(u) == <<u % Limb, (u \div Limb) % Limb, u \div (Limb * Limb)>>

MulLimbs(a, b) ==
  Carry(<<a[1] * b[1], a[1] * b[2] + a[2] * b[1], a[1] * b[3] + a[2] * b[2] + a[3] * b[1],
          a[2] * b[3] + a[3] * b[2], a[3] * b[3]>>)

\* u * v for 0 <= u, v <= 2^31, exactly
BigMul(u, v) == MulLimbs(Limbs(u), Limbs(v))

BigAdd(a, b) == Carry([i \in 1..5 |-> a[i] + b[i]])

BigZero == <<0, 0, 0, 0, 0>>

\* uint64(n) for a small non-negative n
BigFromNat(n) == <<n % Limb, (n \div Limb) % Limb, n \div (Limb * Limb), 0, 0>>

RECURSIVE BigLessFrom(_, _, _)
BigLessFrom(a, b, i) ==
  IF i = 0 THEN FALSE
  ELSE IF a[i] # b[i] THEN a[i] < b[i]
  ELSE BigLessFrom(a, b, i - 1)

\* a < b on uint64
BigLess(a, b) == BigLessFrom(a, b, 5)

\* a >> 1 on limbs
Halve(d) ==
  [i \in 1..5 |-> (d[i] \div 2) + (IF i < 5 THEN (d[i + 1] % 2) * (Limb \div 2) ELSE 0)]

\* a >> 16 on uint64: drop one limb (15 bits), then halve
BigShr16(a) == Halve(<<a[2], a[3], a[4], a[5], 0>>)

\* whether the signed value of magnitude p (negative when neg) lies outside int32
OutsideInt32(p, neg) ==
  ~ \/ (p[5] = 0 /\ p[4] = 0 /\ p[3] < 2)
    \/ (neg /\ p = <<0, 0, 2, 0, 0>>)

\* whether the exact product u * v lies outside int32
MulOverflows32(u, v) == OutsideInt32(BigMul(Abs(u), Abs(v)), (u < 0) # (v < 0))

\* the int32 with the bits top * 2^30 + low (top below 4, low below 2^30)
Signed32(top, low) ==
  IF top >= 2 THEN (top - 4) * (Limb * Limb) + low ELSE top * (Limb * Limb) + low

\* two's-complement negation of an int32
Neg32(w) == IF w = (0 - 2) * (Limb * Limb) THEN w ELSE -w

\* the low 32 bits of magnitude p, negated when neg, as an int32
Wrap32(p, neg) ==
  IF neg THEN Neg32(Signed32(p[3] % 4, p[2] * Limb + p[1]))
  ELSE Signed32(p[3] % 4, p[2] * Limb + p[1])

\* the int32 the program gets for u * v: the low 32 bits, two's complement
MulWrap32(u, v) == Wrap32(BigMul(Abs(u), Abs(v)), (u < 0) # (v < 0))

\* floor((hi * 256 + lo) / d)
DivParts(hi, lo, d) == (hi \div d) * 256 + (((hi % d) * 256 + lo) \div d)

\* floor(u * v / d) for 0 <= u, v < 2^16 and 0 < d < 2^16 (a uint32 product, divided)
MulDiv(u, v, d) == DivParts(u * (v \div 256), u * (v % 256), d)

\* ----------------------------------------------------- colour arithmetic
full == 65535

\* pa := ca[i] * full; if ca[3] > 0 { pa /= ca[3] }; int32(pa)
\* (colours are alpha-premultiplied, c <= a, so the quotient is at most full)
Unpremultiply(c, a) == IF a > 0 THEN MulDiv(c, full, a) ELSE MulWrap32(c, full)

\* the colour <<r, g, b, a>> with r, g, b divided by alpha
Straight(c) == [i \in Comps |-> IF i < 4 THEN Unpremultiply(c[i], c[4]) ELSE c[4]]

\* delta[i] = int32(pa) - int32(pb), delta[3] = int32(ca[3]) - int32(cb[3])
RawDelta(sa, sb) == [i \in Comps |-> sa[i] - sb[i]]

\* redMean := int32((redA + redB) / 2)
RedMean(sa, sb) == (sa[1] + sb[1]) \div 2

\* the three int32 products of the return statement, as (factor, factor) pairs
Factors(d, redMean) ==
  << <<2 * full + redMean, d[1]>>, <<4, d[2]>>, <<3 * full - redMean, d[3]>> >>

WeightFactors(sa, sb) == Factors(RawDelta(sa, sb), RedMean(sa, sb))

\* return colorDelta{ .../(3*full), 4*delta[1]/3, .../(3*full), delta[3] }
Weighted(f, alpha) ==
  <<GoDiv(MulWrap32(f[1][1], f[1][2]), 3 * full),
    GoDiv(MulWrap32(f[2][1], f[2][2]), 3),
    GoDiv(MulWrap32(f[3][1], f[3][2]), 3 * full),
    alpha>>

\* colorDifference on the two colours with alpha divided out
DifferenceStraight(sa, sb) == Weighted(WeightFactors(sa, sb), sa[4] - sb[4])

\* a palette entry is a color.NRGBA <<R, G, B, A>> of 8-bit samples; its RGBA()
\* is alpha-premultiplied and 16-bit: r |= r << 8; r *= a; r /= 0xff; a |= a << 8
RGBA(c) ==
  [i \in Comps |-> IF i < 4 THEN ((c[i] * 257) * c[4]) \div 255 ELSE c[4] * 257]

\* func colorDifference(a, b color.Color) colorDelta
colorDifference(a, b) == DifferenceStraight(Straight(RGBA(a)), Straight(RGBA(b)))

AnyOverflows(f) == \E k \in 1..3 : MulOverflows32(f[k][1], f[k][2])

\* whether one of the int32 products of colorDifference leaves int32
ColorDifferenceOverflows(a, b) ==
  AnyOverflows(WeightFactors(Straight(RGBA(a)), Straight(RGBA(b))))

SumLimbs(sq) == BigAdd(BigAdd(BigAdd(BigAdd(BigZero, sq[1]), sq[2]), sq[3]), sq[4])

\* func (delta colorDelta) magnitude() uint64
magnitude(d) == SumLimbs([i \in Comps |-> BigMul(Abs(d[i]), Abs(d[i]))])

\* the predictor returning its estimate p as a byte instead of a neighbour
paethEstimate(a, b, c) == (a + b - c) % 256

\* the predictor with strict comparisons: ties go to the later argument
paethPredictorStrict(a, b, c) ==
  LET p  == a + b - c
      pa == Abs(p - a)
      pb == Abs(p - b)
      pc == Abs(p - c)
  IN  IF pa < pb /\ pa < pc THEN a
      ELSE IF pb < pc THEN b
      ELSE c

\* // a = left, b = above, c = upper left
paethPredictor(a, b, c) ==
  LET p  == a + b - c
      pa == Abs(p - a)
      pb == Abs(p - b)
      pc == Abs(p - c)
  IN  IF pa <= pb /\ pa <= pc THEN a
      ELSE IF pb <= pc THEN b
      ELSE c

\* ------------------------------------------------------------ call inputs
Quants == {-10, 0, 1, 3, 10}
Pads == {0, 1}

\* pixel byte i of the image <<base, step>>
Images == {<<128, 0>>, <<0, 7>>, <<254, 64>>, <<3, 50>>}
ImageByte(img, i) == (img[1] + i * img[2]) % 256

Black == <<0, 0, 0, 255>>
White == <<255, 255, 255, 255>>
Red   == <<255, 0, 0, 255>>
Gray  == <<128, 128, 128, 255>>
Dark  == <<4, 4, 4, 255>>
Dim   == <<8, 8, 8, 255>>
Blue  == <<0, 0, 255, 255>>
ClearRed   == <<255, 0, 0, 0>>
ClearGreen == <<0, 255, 0, 0>>
HalfGreen  == <<0, 255, 0, 128>>

Palettes == { <<>>,
              <<Black, Red, White, Dark>>,
              <<White, Black, ClearRed, Black, ClearGreen>>,
              <<Gray, HalfGreen, Blue>>,
              <<Black, Dim, Dark>> }

VARIABLES
  ver,            \* which revision of the optimizers runs
  algo,           \* "avg": optimizeForAverageFilter, "paeth": optimizeForPaethFilter
  width, height,  \* bounds.Dx(), bounds.Dy()
  stride,
  bytesPerPixel,
  quantization,
  palette,
  orig,           \* the pixel buffer as the caller passed it
  pixels,         \* the pixel buffer, pixels[offset + 1]
  rows,           \* the three row buffers make() allocated
  ring,           \* colorError[k] refers to rows[ring[k]]
  x, y,           \* the loop variables
  pc,             \* "call", "loop", "done" or "panic" (a Go run-time panic)
  acc,            \* the indexes the last step used: pixel offsets, ring columns, palette indexes
  last,           \* what the last pixel step computed
  other,          \* a second call on its own copy of the same input, as a Machine record
  allPaths,       \* flag.Args(): the input paths, each a sequence of characters
  extension,      \* the -e option
  rewriteOriginal,\* the -r option of the library-based command
  numCPU,         \* runtime.NumCPU()
  files,          \* the file system: what each path holds
  mainPc,         \* where main is: "idle", "start", "send", "wait", "returned"
  sent,           \* how many paths main has sent on pathChan
  closed,         \* whether pathChan is closed
  waiter,         \* the WaitGroup counter
  workers,        \* the optimizePaths goroutines: where each is, and on which path
  received,       \* per path index, the workers that received it
  processed,      \* per path index, how often optimizePath returned for it
  sample          \* a function called on its own: its name, arguments and result

params == <<ver, algo, width, height, stride, bytesPerPixel, quantization, palette, orig>>
vars == <<ver, algo, width, height, stride, bytesPerPixel, quantization, palette, orig,
          pixels, rows, ring, x, y, pc, acc, last, other,
          allPaths, extension, rewriteOriginal, numCPU, files, mainPc, sent, closed,
          waiter, workers, received, processed, sample>>

\* the first call's progress, and what lies outside the first call
machine == <<pixels, rows, ring, x, y, pc, acc, last>>
command == <<allPaths, extension, rewriteOriginal, numCPU, files, mainPc, sent, closed,
             waiter, workers, received, processed>>
outside == <<other, command, sample>>

NoAccess == [pix |-> {}, ring |-> {}, pal |-> {}]
NoSample == [fn |-> "none"]
NoStep == [op |-> "none"]

\* the call's arguments and the call's progress, as records
Params == [ver |-> ver, algo |-> algo, width |-> width, height |-> height,
           stride |-> stride, bpp |-> bytesPerPixel, q |-> quantization,
           palette |-> palette]
Machine == [pixels |-> pixels, rows |-> rows, ring |-> ring, x |-> x, y |-> y,
            pc |-> pc, acc |-> acc, last |-> last]

Start(buf) == [pixels |-> buf, rows |-> <<>>, ring |-> <<>>, x |-> 0, y |-> 0,
               pc |-> "call", acc |-> NoAccess, last |-> NoStep]

Becomes(m) ==
  /\ pixels' = m.pixels
  /\ rows' = m.rows
  /\ ring' = m.ring
  /\ x' = m.x
  /\ y' = m.y
  /\ pc' = m.pc
  /\ acc' = m.acc
  /\ last' = m.last

\* colorError as one package-level array that every running call shares
ColorErrorShared(m) ==
  IF pc = "loop" THEN [k \in 0..(errorRowCount - 1) |-> rows[ring[k]]]
  ELSE [k \in 0..(errorRowCount - 1) |-> m.rows[m.ring[k]]]

\* the row buffer slot k of the ring refers to
ColorError(m) == [k \in 0..(errorRowCount - 1) |-> m.rows[m.ring[k]]]

Returned(m) == [m EXCEPT !.pc = "done", !.acc = NoAccess, !.last = NoStep]

\* colorError allocated, loop variables at their first values
Entered(p, m) ==
  [m EXCEPT !.rows = NewRows(p.width),
            !.ring = [k \in 0..(errorRowCount - 1) |-> k],
            !.x = FirstColumn(p.ver), !.y = FirstRow(p.ver),
            !.pc = "loop", !.acc = NoAccess, !.last = NoStep]

\* the early return testing for a negative step only
AvgReturnsWhenNegative(q) == q < 0

\* if quantization == 0 { return }
AvgReturnsAtOnce(q) == q = 0

\* optimizeForAverageFilter up to its first row
AvgEnter(p, m) == IF AvgReturnsAtOnce(p.q) THEN Returned(m) ELSE Entered(p, m)

\* if colorCount <= 0 { return }
PaethReturnsAtOnce(q, colorCount) == colorCount <= 0

\* optimizeForPaethFilter up to its first row
PaethEnter(p, m) ==
  IF PaethReturnsAtOnce(p.q, Len(p.palette)) THEN Returned(m) ELSE Entered(p, m)

\* the end of the x loop: rotate the ring, next row
RowEnd(p, m) ==
  [m EXCEPT !.ring = Rotate(m.ring), !.y = m.y + 1, !.x = FirstColumn(p.ver),
            !.acc = NoAccess, !.last = NoStep]

InRange(set, n) == \A i \in set : 0 <= i /\ i < n

\* the ring columns one pixel step indexes: the kernel window and the slot written
RingIndexes(xx) == DiffuseIndexes(xx) \cup {xx}

\* a Go run-time panic (index out of range, integer divide by zero) ends the call
Panicked(m, a, l) == [m EXCEPT !.pc = "panic", !.acc = a, !.last = l]

\* --------------------------------------------- optimizeForAverageFilter
\* the offset computed as if the rows were packed, the stride ignored
AvgOffsetPacked(p, m, c) == m.y * p.width * p.bpp + m.x * p.bpp + c

\* offset := y*stride + x*bytesPerPixel + c
AvgOffset(p, m, c) == m.y * p.stride + m.x * p.bpp + c

\* the library revision skips bytes 0 and 255: if here > 0 && here < 255
AvgTouches(v, here) == v = "main" \/ (here > 0 /\ here < 255)

\* whether the byte above / to the left is read (the library reads 0 on row 0 / column 0)
AvgReadsUp(v, yy) == v = "main" \/ yy > 0
AvgReadsLeft(v, xx) == v = "main" \/ xx > 0

\* the neighbour offsets channel c reads, once its own byte is known
AvgNeighbours(p, m, c) ==
  LET offset == AvgOffset(p, m, c)
  IN  IF AvgTouches(p.ver, m.pixels[offset + 1])
      THEN (IF AvgReadsUp(p.ver, m.y) THEN {offset - p.stride} ELSE {})
           \cup (IF AvgReadsLeft(p.ver, m.x) THEN {offset - p.bpp} ELSE {})
      ELSE {}

\* the byte itself snapped to a multiple of the step, the prediction ignored
QuantizeByte(diffusion, here, average, q) ==
  LET halfStep == GoDiv(q, 2)
      t == diffusion + here + halfStep
  IN  t - GoRem(t, q)

\* the whole step added before snapping, instead of half of it
QuantizeUp(diffusion, here, average, q) ==
  LET t == diffusion + here - average + q
  IN  (t - GoRem(t, q)) + average

\* the residual snapped to a multiple of the step, relative to average
Quantize(diffusion, here, average, q) ==
  LET halfStep == GoDiv(q, 2)
      t == diffusion + here - average + halfStep
  IN  (t - GoRem(t, q)) + average

\* the lower limit alone
CommitsAbove(newValue) == newValue >= 0

\* if newValue >= 0 && newValue <= 255
Commits(newValue) == newValue >= 0 /\ newValue <= 255

\* the body of the c loop for channel c: what it reads, computes, writes
AvgChannel(p, m, c, diffusion) ==
  LET offset == AvgOffset(p, m, c)
      here == m.pixels[offset + 1]
      touched == AvgTouches(p.ver, here)
      up == IF AvgReadsUp(p.ver, m.y) THEN m.pixels[offset - p.stride + 1] ELSE 0
      left == IF AvgReadsLeft(p.ver, m.x) THEN m.pixels[offset - p.bpp + 1] ELSE 0
      average == (up + left) \div 2
      newValue == Quantize(diffusion[c + 1], here, average, p.q)
      commit == touched /\ Commits(newValue)
  IN  [offset |-> offset, here |-> here, touched |-> touched,
       average |-> IF touched THEN average ELSE 0,
       newValue |-> IF touched THEN newValue ELSE here,
       commit |-> commit,
       errorHere |-> IF commit THEN here - newValue ELSE 0]

\* the body of the x loop of optimizeForAverageFilter for pixel (x, y)
AvgPixel(p, m) ==
  LET xx == m.x + filterCenter
      chans == 0..(p.bpp - 1)
      own == {AvgOffset(p, m, c) : c \in chans}
      ringIdx == RingIndexes(xx)
      n == Len(m.pixels)
      step0 == [op |-> "avg", x |-> m.x, y |-> m.y]
  IN  IF ~InRange(ringIdx, p.width + filterWidth - 1) \/ ~InRange(own, n)
      THEN Panicked(m, [pix |-> own, ring |-> ringIdx, pal |-> {}], step0)
      ELSE
      LET offs == own \cup UNION {AvgNeighbours(p, m, c) : c \in chans}
          access == [pix |-> offs, ring |-> ringIdx, pal |-> {}]
          divides == \E c \in chans : AvgTouches(p.ver, m.pixels[AvgOffset(p, m, c) + 1])
      IN  IF ~InRange(offs, n) \/ (divides /\ p.q = 0)
          THEN Panicked(m, access, step0)
          ELSE
          LET diffusion == diffuseColorDeltas(ColorError(m), xx)
              ch == [c \in chans |-> AvgChannel(p, m, c, diffusion)]
              slot == m.ring[0]
          IN  [m EXCEPT
                 !.pixels = [i \in 1..n |->
                               IF \E c \in chans : ch[c].commit /\ ch[c].offset + 1 = i
                               THEN ch[CHOOSE c \in chans : ch[c].offset + 1 = i].newValue
                               ELSE m.pixels[i]],
                 !.rows = [m.rows EXCEPT ![slot][xx] =
                             [i \in Comps |-> IF i - 1 \in chans THEN ch[i - 1].errorHere
                                              ELSE m.rows[slot][xx][i]]],
                 !.x = m.x + 1,
                 !.acc = access,
                 !.last = [op |-> "avg", x |-> m.x, y |-> m.y,
                           diffusion |-> diffusion, ch |-> ch]]

\* ----------------------------------------------- optimizeForPaethFilter
\* the neighbour offsets of pixel (x, y); the library reads index 0 outside the image
PaethNeighbours(p, m) ==
  LET offset == m.y * p.stride + m.x
      lib == p.ver = "lib"
  IN  [up   |-> IF ~lib \/ m.y > 0 THEN {offset - p.stride} ELSE {},
       left |-> IF ~lib \/ m.x > 0 THEN {offset - 1} ELSE {},
       diagonal |-> IF ~lib \/ (m.y > 0 /\ m.x > 0) THEN {offset - p.stride - 1} ELSE {}]

\* the byte at the one offset of set, 0 when the set is empty
ByteAt(buf, set) == IF set = {} THEN 0 ELSE buf[(CHOOSE o \in set : TRUE) + 1]

\* the magnitude compared without the shift
EarlyExitUnshifted(total, q) == BigLess(magnitude(total), BigFromNat(q * q))

\* (total.magnitude() >> 16) < uint64(quantization * quantization)
EarlyExit(total, q) == BigLess(BigShr16(magnitude(total)), BigFromNat(q * q))

\* the scan with bestMagnitude >= nextMagnitude: the last of the minima wins
RECURSIVE ScanFromLast(_, _, _)
ScanFromLast(cand, i, best) ==
  IF i >= Len(cand) THEN best
  ELSE ScanFromLast(cand, i + 1,
                    IF ~BigLess(best.magnitude, cand[i + 1].magnitude)
                    THEN [color |-> i % 256, delta |-> cand[i + 1].delta,
                          magnitude |-> cand[i + 1].magnitude]
                    ELSE best)

\* for i, candidate := range palette { ... if bestMagnitude > nextMagnitude { ... } }
\* cand[i + 1] holds delta and nextMagnitude of candidate i; best is the running choice
RECURSIVE ScanFrom(_, _, _)
ScanFrom(cand, i, best) ==
  IF i >= Len(cand) THEN best
  ELSE ScanFrom(cand, i + 1,
                IF BigLess(cand[i + 1].magnitude, best.magnitude)
                THEN [color |-> i % 256, delta |-> cand[i + 1].delta,
                      magnitude |-> cand[i + 1].magnitude]
                ELSE best)

\* total = delta.add(diffusion); total.magnitude()
WithMagnitude(delta, diffusion) ==
  [delta |-> delta, magnitude |-> magnitude(add(delta, diffusion))]

\* delta and magnitude for every candidate colour of the palette
Candidates(pal, here, diffusion) ==
  [i \in 1..Len(pal) |-> WithMagnitude(colorDifference(pal[here + 1], pal[i]), diffusion)]

\* bestColor = 0, bestDelta and bestMagnitude those of palette[0], then the range loop
ScanAll(cand) ==
  ScanFrom(cand, 0, [color |-> 0, delta |-> cand[1].delta, magnitude |-> cand[1].magnitude])

\* the else branch: the exhaustive scan of the palette
Scan(pal, here, diffusion) == ScanAll(Candidates(pal, here, diffusion))

\* the choice that keeps the delta of the Paeth prediction after a scan
ChooseFirstDelta(paeth, first, early, scan) ==
  IF early THEN [color |-> paeth, delta |-> first, early |-> TRUE]
  ELSE [color |-> scan.color, delta |-> first, early |-> FALSE]

\* the choice between the Paeth prediction and the result of the scan
Choose(paeth, first, early, scan) ==
  IF early THEN [color |-> paeth, delta |-> first, early |-> TRUE]
  ELSE [color |-> scan.color, delta |-> scan.delta, early |-> FALSE]

\* bestDelta := colorDifference(palette[here], palette[paeth]); total := bestDelta.add(diffusion)
Decide(pal, here, paeth, diffusion, first, q) ==
  Choose(paeth, first, EarlyExit(add(first, diffusion), q), Scan(pal, here, diffusion))

\* the pixel step once the bytes are read and are valid palette indexes
PaethCommit(p, m, nbr, access, diffusion, best) ==
  [m EXCEPT
     !.pixels = [m.pixels EXCEPT ![nbr.offset + 1] = best.color],
     !.rows = [m.rows EXCEPT ![m.ring[0]][m.x + filterCenter] = best.delta],
     !.x = m.x + 1,
     !.acc = [access EXCEPT !.pal = {nbr.here, nbr.paeth} \cup
                (IF best.early THEN {} ELSE 0..(Len(p.palette) - 1))],
     !.last = [op |-> "paeth", x |-> m.x, y |-> m.y, here |-> nbr.here,
               up |-> nbr.up, left |-> nbr.left, diagonal |-> nbr.diagonal,
               paeth |-> nbr.paeth, diffusion |-> diffusion, early |-> best.early,
               color |-> best.color, delta |-> best.delta]]

PaethChoice(p, m, nbr, access, diffusion) ==
  PaethCommit(p, m, nbr, access, diffusion,
              Decide(p.palette, nbr.here, nbr.paeth, diffusion,
                     colorDifference(p.palette[nbr.here + 1], p.palette[nbr.paeth + 1]),
                     p.q))

\* a lookup that stops at any of the four bytes past the palette
PaethLookupValidating(p, m, nbr, access) ==
  IF \E v \in {nbr.here, nbr.up, nbr.left, nbr.diagonal} : v >= Len(p.palette)
  THEN Panicked(m, access, nbr)
  ELSE PaethChoice(p, m, nbr, access, diffuseColorDeltas(ColorError(m), m.x + filterCenter))

\* palette[here], palette[paeth]: an index past the palette is a run-time panic
PaethLookup(p, m, nbr, access) ==
  IF nbr.here >= Len(p.palette)
  THEN Panicked(m, [access EXCEPT !.pal = {nbr.here}], nbr)
  ELSE IF nbr.paeth >= Len(p.palette)
  THEN Panicked(m, [access EXCEPT !.pal = {nbr.here, nbr.paeth}], nbr)
  ELSE PaethChoice(p, m, nbr, access, diffuseColorDeltas(ColorError(m), m.x + filterCenter))

\* here, up, left, diagonal and the prediction
Predicted(m, offset, here, up, left, diagonal) ==
  [op |-> "paeth", x |-> m.x, y |-> m.y, offset |-> offset, here |-> here, up |-> up,
   left |-> left, diagonal |-> diagonal, paeth |-> paethPredictor(left, up, diagonal)]

PaethRead(m, offset, nb) ==
  Predicted(m, offset, m.pixels[offset + 1], ByteAt(m.pixels, nb.up),
            ByteAt(m.pixels, nb.left), ByteAt(m.pixels, nb.diagonal))

PaethAccess(offset, nb, xx) ==
  [pix |-> {offset} \cup nb.up \cup nb.left \cup nb.diagonal,
   ring |-> RingIndexes(xx), pal |-> {}]

PaethChecked(p, m, offset, nb, access) ==
  IF ~InRange(access.ring, p.width + filterWidth - 1) \/ ~InRange(access.pix, Len(m.pixels))
  THEN Panicked(m, access, [op |-> "paeth", x |-> m.x, y |-> m.y])
  ELSE PaethLookup(p, m, PaethRead(m, offset, nb), access)

PaethAt(p, m, offset, nb) ==
  PaethChecked(p, m, offset, nb, PaethAccess(offset, nb, m.x + filterCenter))

\* the body of the x loop of optimizeForPaethFilter for pixel (x, y)
PaethPixel(p, m) == PaethAt(p, m, m.y * p.stride + m.x, PaethNeighbours(p, m))

\* ------------------------------------------------------------ the calls
\* an index buffer: bytes below modulus m
IndexBuffer(img, len, m) == [i \in 1..len |-> ImageByte(img, i - 1) % m]

\* moduli for a palette of n colours: n keeps every byte a valid index, n + 2 does not
Moduli(n) == IF n = 0 THEN {256} ELSE {n, n + 2}

\* the command is not running
NoCommand ==
  /\ allPaths = <<>> /\ extension = <<>> /\ rewriteOriginal = FALSE /\ numCPU = 1
  /\ files = <<>> /\ mainPc = "idle" /\ sent = 0 /\ closed = FALSE /\ waiter = 0
  /\ workers = <<>> /\ received = <<>> /\ processed = <<>>

Init ==
  /\ ver \in Versions
  /\ algo \in {"avg", "paeth"}
  /\ width \in 0..MaxWidth
  /\ height \in 0..MaxHeight
  /\ quantization \in Quants
  /\ \E pad \in Pads, img \in Images :
       \/ /\ algo = "avg"
          /\ bytesPerPixel \in {1, 4}
          /\ palette = <<>>
          /\ stride = width * bytesPerPixel + pad
          /\ orig = [i \in 1..(stride * height) |-> ImageByte(img, i - 1)]
       \/ /\ algo = "paeth"
          /\ bytesPerPixel = 1
          /\ palette \in Palettes
          /\ stride = width + pad
          /\ \E md \in Moduli(Len(palette)) :
               orig = IndexBuffer(img, stride * height, md)
  /\ pixels = orig
  /\ rows = <<>>
  /\ ring = <<>>
  /\ x = 0
  /\ y = 0
  /\ pc = "call"
  /\ acc = NoAccess
  /\ last = NoStep
  /\ other = Start(orig)
  /\ sample = NoSample
  /\ NoCommand

AvgCall ==
  /\ pc = "call" /\ algo = "avg"
  /\ Becomes(AvgEnter(Params, Machine))
  /\ UNCHANGED <<params, outside>>

PaethCall ==
  /\ pc = "call" /\ algo = "paeth"
  /\ Becomes(PaethEnter(Params, Machine))
  /\ UNCHANGED <<params, outside>>

AvgStep ==
  /\ pc = "loop" /\ algo = "avg" /\ y < height /\ x < width
  /\ Becomes(AvgPixel(Params, Machine))
  /\ UNCHANGED <<params, outside>>

PaethStep ==
  /\ pc = "loop" /\ algo = "paeth" /\ y < height /\ x < width
  /\ Becomes(PaethPixel(Params, Machine))
  /\ UNCHANGED <<params, outside>>

NextRow ==
  /\ pc = "loop" /\ y < height /\ x >= width
  /\ Becomes(RowEnd(Params, Machine))
  /\ UNCHANGED <<params, outside>>

Return ==
  /\ pc = "loop" /\ y >= height
  /\ Becomes(Returned(Machine))
  /\ UNCHANGED <<params, outside>>

Next == AvgCall \/ PaethCall \/ AvgStep \/ PaethStep \/ NextRow \/ Return

Spec == Init /\ [][Next]_vars

\* the optimizers one at a time
InitAvg == Init /\ algo = "avg"
NextAvg == AvgCall \/ AvgStep \/ NextRow \/ Return
SpecAvg == InitAvg /\ [][NextAvg]_vars

InitPaeth == Init /\ algo = "paeth"
NextPaeth == PaethCall \/ PaethStep \/ NextRow \/ Return
SpecPaeth == InitPaeth /\ [][NextPaeth]_vars

\* ------------------------------------------------- a whole call at once
\* the step the call takes next
StepOf(a, p, m) ==
  IF m.pc = "call" THEN (IF a = "avg" THEN AvgEnter(p, m) ELSE PaethEnter(p, m))
  ELSE IF m.y >= p.height THEN Returned(m)
  ELSE IF m.x >= p.width THEN RowEnd(p, m)
  ELSE IF a = "avg" THEN AvgPixel(p, m)
  ELSE PaethPixel(p, m)

RECURSIVE RunFrom(_, _, _)
RunFrom(a, p, m) ==
  IF m.pc \in {"done", "panic"} THEN m ELSE RunFrom(a, p, StepOf(a, p, m))

\* the buffer optimizeForAverageFilter(buf, ..., q) leaves
AvgResult(p, buf, q) == RunFrom("avg", [p EXCEPT !.q = q], Start(buf)).pixels

\* ------------------------------------------- two calls, steps interleaved
\* a step of the second call; the first call steps by the actions of Next
OtherStep ==
  /\ other.pc \notin {"done", "panic"}
  /\ other' = StepOf(algo, Params, other)
  /\ UNCHANGED <<params, machine, command, sample>>

\* two calls of the optimizers of lossypng.go on unpadded copies of one image
InitTwo == Init /\ ver = "main" /\ quantization = 10 /\ stride = width * bytesPerPixel
NextTwo == Next \/ OtherStep
SpecTwo == InitTwo /\ [][NextTwo]_vars

\* ------------------------------------------------------------ the command
\* ver = "main" is the command of lossypng.go, ver = "lib" the command built on
\* the library, which can remove the output or rename it over the input
MaxPaths == 2
MaxCPU == 2

\* path.Ext: the suffix from the last dot of the last slash-separated element
RECURSIVE ExtFrom(_, _)
ExtFrom(str, i) ==
  IF i < 1 THEN <<>>
  ELSE IF str[i] = "/" THEN <<>>
  ELSE IF str[i] = "." THEN SubSeq(str, i, Len(str))
  ELSE ExtFrom(str, i - 1)

Ext(str) == ExtFrom(str, Len(str))

\* strings.LastIndex: where the last occurrence of sub in str starts, -1 if none
LastIndex(str, sub) ==
  LET at == {i \in 0..(Len(str) - Len(sub)) : SubSeq(str, i + 1, i + Len(sub)) = sub}
  IN  IF at = {} THEN -1 ELSE CHOOSE i \in at : \A j \in at : j <= i

\* func pathWithSuffix(filePath string, suffix string) string
pathWithSuffix(filePath, suffix) ==
  LET ext == Ext(filePath)
      insertion == IF Len(ext) > 0 THEN LastIndex(filePath, ext) ELSE Len(filePath)
  IN  SubSeq(filePath, 1, insertion) \o suffix

PathNames == << <<"a", ".", "p">>, <<"a", ".", "j">>, <<"d", ".", "e", "/", "a">> >>
Extensions == { <<"-", ".", "p">>, <<".", "p">> }

\* the argument lists: up to MaxPaths different names, in the order of PathNames
Ordered(n) == {f \in [1..n -> DOMAIN PathNames] : \A i \in 1..(n - 1) : f[i] < f[i + 1]}
PathLists == UNION {{[i \in 1..n |-> PathNames[f[i]]] : f \in Ordered(n)} : n \in 0..MaxPaths}

Range(f) == {f[i] : i \in DOMAIN f}

\* the paths the command can touch
FileNames(paths, suffix) ==
  Range(paths) \cup {pathWithSuffix(paths[i], suffix) : i \in DOMAIN paths}

\* n := runtime.NumCPU(); if n > pathCount { n = pathCount }
WorkerCount(cpus, pathCount) == IF cpus > pathCount THEN pathCount ELSE cpus

\* one more than the goroutines started
WaiterAddOneMore(n) == n + 1

\* waiter.Add(n)
WaiterAdd(n) == n

\* a goroutine at the head of for path := range pathChan
Ranging == [pc |-> "range", index |-> 0, out |-> <<>>]

\* os.Open and image.Decode succeed on a file that holds an image
Decodes(content) == content \in {"original", "encoded"}

\* os.Create fails on an empty name and on a directory name
CreateFails(out) == out = <<>> \/ out[Len(out)] = "/"

optimizer == <<params, machine, other, sample>>
options == <<allPaths, extension, rewriteOriginal, numCPU>>

\* the optimizers are not running
NoCall ==
  /\ algo = "avg" /\ width = 0 /\ height = 0 /\ stride = 0 /\ bytesPerPixel = 1
  /\ quantization = 0 /\ palette = <<>> /\ orig = <<>> /\ pixels = <<>>
  /\ rows = <<>> /\ ring = <<>> /\ x = 0 /\ y = 0 /\ pc = "idle"
  /\ acc = NoAccess /\ last = NoStep /\ other = Start(<<>>)

InitMain ==
  /\ ver \in Versions
  /\ NoCall
  /\ sample = NoSample
  /\ allPaths \in PathLists
  /\ extension \in Extensions
  /\ rewriteOriginal \in (IF ver = "lib" THEN BOOLEAN ELSE {FALSE})
  /\ numCPU \in 1..MaxCPU
  /\ files = [f \in FileNames(allPaths, extension) |->
                IF f \in Range(allPaths) THEN "original" ELSE "none"]
  /\ mainPc = "start"
  /\ sent = 0
  /\ closed = FALSE
  /\ waiter = 0
  /\ workers = <<>>
  /\ received = [i \in DOMAIN allPaths |-> <<>>]
  /\ processed = [i \in DOMAIN allPaths |-> 0]

\* waiter.Add(n) and the n go statements
MainStart ==
  /\ mainPc = "start"
  /\ waiter' = WaiterAdd(WorkerCount(numCPU, Len(allPaths)))
  /\ workers' = [w \in 1..WorkerCount(numCPU, Len(allPaths)) |-> Ranging]
  /\ mainPc' = "send"
  /\ UNCHANGED <<ver, optimizer, options, files, sent, closed, received, processed>>

\* pathChan <- path meets the receive of a goroutine at its range statement
Send ==
  /\ mainPc = "send" /\ sent < Len(allPaths)
  /\ \E w \in DOMAIN workers :
       /\ workers[w].pc = "range"
       /\ workers' = [workers EXCEPT ![w] = [pc |-> "open", index |-> sent + 1, out |-> <<>>]]
       /\ received' = [received EXCEPT ![sent + 1] = Append(@, w)]
  /\ sent' = sent + 1
  /\ UNCHANGED <<ver, optimizer, options, files, mainPc, closed, waiter, processed>>

\* close(pathChan)
Close ==
  /\ mainPc = "send" /\ sent = Len(allPaths)
  /\ closed' = TRUE
  /\ mainPc' = "wait"
  /\ UNCHANGED <<ver, optimizer, options, files, sent, waiter, workers, received, processed>>

\* waiter.Wait() returns when the counter is 0, and main returns
Wait ==
  /\ mainPc = "wait" /\ waiter = 0
  /\ mainPc' = "returned"
  /\ UNCHANGED <<ver, optimizer, options, files, sent, closed, waiter, workers, received, processed>>

\* optimizePath returns: the goroutine is back at its range statement
Back(w) ==
  /\ workers' = [workers EXCEPT ![w] = Ranging]
  /\ processed' = [processed EXCEPT ![workers[w].index] = @ + 1]

\* os.Open, image.Decode, inFile.Close
Open ==
  \E w \in DOMAIN workers :
    /\ workers[w].pc = "open"
    /\ IF Decodes(files[allPaths[workers[w].index]])
       THEN workers' = [workers EXCEPT ![w].pc = "create"] /\ UNCHANGED processed
       ELSE Back(w)
    /\ UNCHANGED <<ver, optimizer, options, files, mainPc, sent, closed, waiter, received>>

\* outPath := pathWithSuffix(inPath, extension); os.Create(outPath)
Create ==
  \E w \in DOMAIN workers :
    /\ workers[w].pc = "create"
    /\ LET out == pathWithSuffix(allPaths[workers[w].index], extension)
       IN  IF CreateFails(out)
           THEN Back(w) /\ UNCHANGED files
           ELSE /\ files' = [files EXCEPT ![out] = "empty"]
                /\ workers' = [workers EXCEPT ![w].pc = "encode", ![w].out = out]
                /\ UNCHANGED processed
    /\ UNCHANGED <<ver, optimizer, options, mainPc, sent, closed, waiter, received>>

\* png.Encode(outFile, optimized); a file unlinked meanwhile gets no name back
Encode ==
  \E w \in DOMAIN workers :
    /\ workers[w].pc = "encode"
    /\ files' = IF files[workers[w].out] = "none" THEN files
                ELSE [files EXCEPT ![workers[w].out] = "encoded"]
    /\ workers' = [workers EXCEPT ![w].pc = "finish"]
    /\ UNCHANGED <<ver, optimizer, options, mainPc, sent, closed, waiter, received, processed>>

\* os.Remove(outPath)
Remove(fs, name) == [fs EXCEPT ![name] = "none"]

\* os.Rename(outPath, inPath)
Rename(fs, from, to) ==
  IF fs[from] = "none" \/ from = to THEN fs
  ELSE [fs EXCEPT ![to] = fs[from], ![from] = "none"]

\* the statistics; the library-based command removes an output that is not
\* smaller and, with -r, renames the output over the input
Finish ==
  \E w \in DOMAIN workers :
    /\ workers[w].pc = "finish"
    /\ \/ ver = "main" /\ UNCHANGED files
       \/ ver = "lib" /\ files' = Remove(files, workers[w].out)
       \/ ver = "lib" /\ files' = IF rewriteOriginal
                                  THEN Rename(files, workers[w].out, allPaths[workers[w].index])
                                  ELSE files
    /\ Back(w)
    /\ UNCHANGED <<ver, optimizer, options, mainPc, sent, closed, waiter, received>>

\* the range loop ends on the closed channel; waiter.Done()
Exit ==
  \E w \in DOMAIN workers :
    /\ workers[w].pc = "range" /\ closed
    /\ workers' = [workers EXCEPT ![w].pc = "exit"]
    /\ waiter' = waiter - 1
    /\ UNCHANGED <<ver, optimizer, options, files, mainPc, sent, closed, received, processed>>

NextMain ==
  MainStart \/ Send \/ Close \/ Wait \/ Open \/ Create \/ Encode \/ Finish \/ Exit

\* the Go scheduler keeps running goroutines that can run
SpecMain == InitMain /\ [][NextMain]_vars /\ WF_vars(NextMain)

\* ------------------------------------------- a function called on its own
\* byte values around the ends and the middle of the range
Bytes == {0, 1, 2, 3, 127, 128, 254, 255}

PredictorCalls ==
  {[fn |-> "paethPredictor", args |-> <<a, b, c>>, pc |-> "call"] : a, b, c \in Bytes}

InitPredict ==
  /\ ver = "main" /\ NoCall /\ NoCommand
  /\ sample \in PredictorCalls

\* paethPredictor(a, b, c) returns
Predict ==
  /\ sample.fn = "paethPredictor" /\ sample.pc = "call"
  /\ sample' = [fn |-> sample.fn, args |-> sample.args, pc |-> "done",
                result |-> paethPredictor(sample.args[1], sample.args[2], sample.args[3])]
  /\ UNCHANGED <<params, machine, other, command>>

SpecPredict == InitPredict /\ [][Predict]_vars

\* ----------------------------------------------------- shared vocabulary
Called == pc # "call"
ColorCount == Len(palette)
ValidIndexes(buf) == \A i \in 1..Len(buf) : buf[i] < ColorCount

\* offsets of the bytes of row 0 and of column 0 inside the image area
BoundaryOffsets ==
  {yy * stride + xx * bytesPerPixel + c :
     yy \in 0..(height - 1), xx \in 0..(width - 1), c \in 0..(bytesPerPixel - 1)}
  \cap {o \in 0..(stride * height - 1) :
          o < width * bytesPerPixel \/ (o % stride) < bytesPerPixel}

\* offsets of the channel bytes of the pixels with x >= 1 and y >= 1
InteriorOffsets ==
  {yy * stride + xx * bytesPerPixel + c :
     yy \in 1..(height - 1), xx \in 1..(width - 1), c \in 0..(bytesPerPixel - 1)}

\* the average-filter residual of the byte at offset o of buf
Residual(buf, o) ==
  buf[o + 1] - ((buf[o - stride + 1] + buf[o - bytesPerPixel + 1]) \div 2)

Residuals(buf, offs) == {Residual(buf, o) : o \in offs}

\* a call the command can make: a step >= 0, index bytes inside the palette
WellFormed == quantization >= 0 /\ (algo = "paeth" => ValidIndexes(orig))

PaethStepDone == last.op = "paeth" /\ "here" \in DOMAIN last

\* ================================================================ claims
\* C1: optimizeForAverageFilter called with quantization == 0 returns at once
\* and leaves every byte of the pixel buffer equal to its input value.
C1_AvgZeroUnchanged ==
  (algo = "avg" /\ quantization = 0 /\ Called) => (pc = "done" /\ pixels = orig)

C1_Witness ==
  /\ algo = "avg" /\ quantization = 0 /\ pc = "done"
  /\ width >= 2 /\ height >= 2 /\ bytesPerPixel = 4
  /\ pixels = orig

\* C2: optimizeForPaethFilter called with quantization == 0 or with an empty
\* palette leaves every byte of a buffer of valid indexes unchanged, duplicate
\* and fully transparent palette entries included.
C2_PaethZeroUnchanged ==
  (/\ algo = "paeth"
   /\ quantization = 0 \/ ColorCount = 0
   /\ ValidIndexes(orig)
   /\ Called)
  => pixels = orig

PaethDecided == PaethStepDone /\ "early" \in DOMAIN last

\* C4: when every byte of the index buffer is below len(palette) at the call,
\* every byte stays below len(palette) after every pixel step and at return,
\* and no palette lookup uses an index >= len(palette).
C4_IndexesStayValid ==
  (algo = "paeth" /\ ValidIndexes(orig))
  => (ValidIndexes(pixels) /\ InRange(acc.pal, ColorCount) /\ pc # "panic")

C4_Witness ==
  /\ PaethDecided /\ ValidIndexes(orig)
  /\ ~last.early /\ last.color # last.here
  /\ pixels # orig

\* C5: no int32 product of colorDifference leaves int32 for the palette
\* colours a pixel step compares.
C5_NoOverflow ==
  (PaethDecided /\ WellFormed)
  => ~ColorDifferenceOverflows(palette[last.here + 1], palette[last.paeth + 1])

\* C6: a call with a negative quantization leaves the buffer as it was, in
\* both optimizers; the negative value is never used as step or threshold.
C6_NegativeIsLossless ==
  (quantization < 0 /\ Called)
  => /\ algo = "avg" => pixels = orig
     /\ PaethDecided => ~last.early

\* C7 as stated: a pixel step that meets a current, left, above or above-left
\* byte >= len(palette) stops the call with a failure.
C7_CorruptionReported ==
  (/\ PaethStepDone /\ quantization >= 0
   /\ \E v \in {last.here, last.up, last.left, last.diagonal} : v >= ColorCount)
  => pc = "panic"

\* C7 amended: a pixel step stops the call with an index-out-of-range panic
\* exactly when the current byte or the Paeth prediction is >= len(palette);
\* the failing lookup is the only one made with such an index.
C7_PanicOnLookupOnly ==
  PaethStepDone
  => /\ (pc = "panic") <=> (last.here >= ColorCount \/ last.paeth >= ColorCount)
     /\ pc # "panic" => InRange(acc.pal, ColorCount)
     /\ pc = "panic" => /\ pixels[last.offset + 1] = last.here
                        /\ Cardinality({i \in acc.pal : i >= ColorCount}) = 1

C7_Witness ==
  /\ PaethStepDone /\ pc = "panic"
  /\ last.here < ColorCount /\ last.paeth >= ColorCount

\* the number of distinct residuals over the interior bytes of buf
ResidualCount(buf) == Cardinality(Residuals(buf, InteriorOffsets))

AvgDone == algo = "avg" /\ pc = "done"

\* C8 as stated: for the same buffer and steps 1 <= q1 < q2, the output for q2
\* has no more distinct average-filter residuals than the output for q1.
C8_ResidualsMonotone ==
  (AvgDone /\ quantization >= 1)
  => \A q2 \in {q \in Quants : q > quantization} :
       ResidualCount(AvgResult(Params, orig, q2)) <= ResidualCount(pixels)

\* C8 amended: for a step q >= 1 every interior byte of the output either keeps
\* its input value or has a residual that is a multiple of q, so the rewritten
\* bytes use at most 2 * (255 / q) + 1 distinct residuals.
C8_ResidualsOnGrid ==
  (AvgDone /\ quantization >= 1)
  => LET changed == {o \in InteriorOffsets : pixels[o + 1] # orig[o + 1]}
     IN  /\ \A o \in changed : Residual(pixels, o) % quantization = 0
         /\ Cardinality(Residuals(pixels, changed)) <= 2 * (255 \div quantization) + 1

C8_Witness ==
  /\ AvgDone /\ quantization > 1
  /\ \E o \in InteriorOffsets :
       pixels[o + 1] # orig[o + 1] /\ Residual(pixels, o) # 0
  /\ \E q1 \in {q \in Quants : q >= 1 /\ q < quantization} :
       ResidualCount(AvgResult(Params, orig, q1)) < ResidualCount(pixels)

NoOp == pixels = orig /\ last = NoStep /\ pc # "panic"

C10_AccessesInBounds ==
  /\ InRange(acc.pix, stride * height)
  /\ InRange(acc.ring, width + filterWidth - 1)
  /\ pc = "panic" => PaethStepDone

C10_Witness ==
  /\ width >= 2 /\ height >= 2 /\ pc = "loop"
  /\ (stride * height - 1) \in acc.pix
  /\ (width + filterWidth - 2) \in acc.ring

\* both calls ended
BothEnded == pc \in {"done", "panic"} /\ other.pc \in {"done", "panic"}

Constant(buf) == Len(buf) > 0 /\ \A i \in 1..Len(buf) : buf[i] = buf[1]

\* no error recorded in any row buffer
NoErrorRecorded ==
  \A k \in DOMAIN rows : \A i \in DOMAIN rows[k] : rows[k][i] = ZeroDelta

ConstantCall ==
  algo = "avg" /\ bytesPerPixel = 1 /\ quantization >= 1 /\ Constant(orig)

Created(w) == workers[w].pc \in {"encode", "finish"}

\* C13: the output path differs from the input path, and without -r the
\* input file keeps its content while and after the output is written.
C13_OutputIsNewFile ==
  \A w \in DOMAIN workers :
    Created(w)
    => /\ workers[w].out # allPaths[workers[w].index]
       /\ ~rewriteOriginal => files[allPaths[workers[w].index]] = "original"

\* every path went to one goroutine and optimizePath returned once for it
EachPathOnce ==
  \A i \in DOMAIN allPaths : Len(received[i]) = 1 /\ processed[i] = 1

\* every goroutine left its loop and called Done
AllDone ==
  /\ waiter = 0
  /\ \A w \in DOMAIN workers : workers[w].pc = "exit"
  /\ Len(workers) = WorkerCount(numCPU, Len(allPaths))

\* C14: main returns eventually, and when it has returned every path was
\* received by exactly one goroutine and processed exactly once and every
\* goroutine has called Done.
C14_PoolTerminates ==
  /\ <>(mainPc = "returned")
  /\ [](mainPc = "returned" => (EachPathOnce /\ AllDone))

\* main returned after two goroutines shared two paths
C14_Witness ==
  /\ mainPc = "returned" /\ Len(allPaths) = 2 /\ Len(workers) = 2
  /\ received[1] # received[2]
  /\ EachPathOnce /\ AllDone

\* the x loop of a row is about to start
RowStart ==
  pc = "loop" /\ width >= 2 /\ y < height /\ x = FirstColumn(ver) /\ last = NoStep

\* C16: at the start of every row the three slots of the error ring refer to
\* three different row buffers.
C16_SlotsDistinct ==
  (RowStart /\ quantization >= 1) => Cardinality({ring[k] : k \in 0..(errorRowCount - 1)}) = errorRowCount

\* a pixel step of optimizeForAverageFilter that ran to its end
AvgStepDone == last.op = "avg" /\ "ch" \in DOMAIN last

\* the error the last pixel step left in the ring for channel c
Recorded(c) == rows[ring[0]][last.x + filterCenter][c + 1]

InByte(v) == 0 <= v /\ v <= 255

\* C17: with q >= 1 a pixel step overwrites a channel byte only with a newValue
\* in [0, 255] and then records original - newValue; otherwise the byte keeps
\* its value and the step records 0.
C17_CommitPolicy ==
  (AvgStepDone /\ quantization >= 1)
  => \A c \in DOMAIN last.ch :
       /\ pixels[last.ch[c].offset + 1] # last.ch[c].here => InByte(last.ch[c].newValue)
       /\ InByte(last.ch[c].newValue)
          => /\ pixels[last.ch[c].offset + 1] = last.ch[c].newValue
             /\ Recorded(c) = last.ch[c].here - last.ch[c].newValue
       /\ ~InByte(last.ch[c].newValue)
          => /\ pixels[last.ch[c].offset + 1] = last.ch[c].here
             /\ Recorded(c) = 0

\* a step that rejected one channel and rewrote another
C17_Witness ==
  /\ AvgStepDone /\ quantization >= 1
  /\ \E c \in DOMAIN last.ch : ~InByte(last.ch[c].newValue)
  /\ \E c \in DOMAIN last.ch :
       InByte(last.ch[c].newValue) /\ last.ch[c].newValue # last.ch[c].here

\* C18: after optimizeForAverageFilter returns with q >= 1, every channel byte
\* of a pixel with x >= 1 and y >= 1 either equals its input value or differs
\* from the average of the final bytes above and to the left by an exact
\* multiple of q.
C18_InteriorOnGrid ==
  (AvgDone /\ quantization >= 1)
  => \A o \in InteriorOffsets :
       \/ pixels[o + 1] = orig[o + 1]
       \/ Residual(pixels, o) % quantization = 0

\* a return with a rewritten byte off its input and a kept byte off the grid
C18_Witness ==
  /\ AvgDone /\ quantization > 1
  /\ \E o \in InteriorOffsets :
       /\ pixels[o + 1] # orig[o + 1]
       /\ Residual(pixels, o) # 0 /\ Residual(pixels, o) % quantization = 0
  /\ \E o \in InteriorOffsets :
       pixels[o + 1] = orig[o + 1] /\ Residual(pixels, o) % quantization # 0

\* magnitude(colorDifference(palette[here], palette[i]) + diffusion) for the
\* pixel of the last step
CandidateMagnitude(i) ==
  magnitude(add(colorDifference(palette[last.here + 1], palette[i + 1]), last.diffusion))

\* the byte the last pixel step of optimizeForPaethFilter stored
Committed == pixels[last.y * stride + last.x + 1]

\* C19: when the early-exit test fails for a pixel, the committed index has
\* the smallest magnitude(colorDifference(palette[here], palette[i]) +
\* diffusion) of the whole palette, and is the lowest index of that magnitude.
C19_ScanPicksLowestMinimum ==
  (PaethDecided /\ ~last.early)
  => /\ Committed = last.color
     /\ last.color \in 0..(ColorCount - 1)
     /\ \A i \in 0..(ColorCount - 1) :
          /\ ~BigLess(CandidateMagnitude(i), CandidateMagnitude(last.color))
          /\ i < last.color
             => BigLess(CandidateMagnitude(last.color), CandidateMagnitude(i))

\* a scan that moved the pixel to the first of two colours of minimal magnitude
C19_Witness ==
  /\ PaethDecided /\ ~last.early /\ last.color # last.here
  /\ \E i \in 0..(ColorCount - 1) :
       i > last.color /\ CandidateMagnitude(i) = CandidateMagnitude(last.color)
  /\ \E i \in 0..(ColorCount - 1) :
       BigLess(CandidateMagnitude(last.color), CandidateMagnitude(i))

\* the early-exit test of the last pixel step, from the palette and the diffusion
PaethIsClose ==
  BigLess(BigShr16(CandidateMagnitude(last.paeth)), BigFromNat(quantization * quantization))

\* C20: whenever magnitude(colorDifference(palette[here], palette[paeth]) +
\* diffusion) >> 16 is below q * q the committed index is the Paeth prediction;
\* in particular a magnitude of 0 commits paeth for every q >= 1.
C20_EarlyExitCommitsPaeth ==
  PaethDecided
  => /\ PaethIsClose => (last.early /\ last.color = last.paeth /\ Committed = last.paeth)
     /\ (quantization >= 1 /\ CandidateMagnitude(last.paeth) = BigFromNat(0))
        => Committed = last.paeth

\* an early exit that kept a prediction the scan would have passed over
C20_Witness ==
  /\ PaethDecided /\ quantization >= 1 /\ PaethIsClose
  /\ last.paeth # last.here /\ Committed = last.paeth
  /\ \E i \in 0..(ColorCount - 1) :
       BigLess(CandidateMagnitude(i), CandidateMagnitude(last.paeth))

\* the ring as the pixel step about to be taken reads it, and its column
RingNow == ColorError(Machine)
ColumnNow == x + filterCenter

\* a pixel step of optimizeForPaethFilter is taken and decides on a colour
PaethStepTaken ==
  /\ pc = "loop" /\ algo = "paeth" /\ y < height /\ x < width
  /\ PaethDecided'

\* sign(s) * floor((|s| + half) / total)
HalfAwayFromZero(s, half, total) ==
  IF s < 0 THEN -((half - s) \div total) ELSE (s + half) \div total

\* the ten weighted taps of component i around the pixel about to be processed
SierraTaps(i) ==
    2 * RingNow[2][ColumnNow - 1][i] + 3 * RingNow[2][ColumnNow][i]
  + 2 * RingNow[2][ColumnNow + 1][i]
  + 2 * RingNow[1][ColumnNow - 2][i] + 4 * RingNow[1][ColumnNow - 1][i]
  + 5 * RingNow[1][ColumnNow][i]
  + 4 * RingNow[1][ColumnNow + 1][i] + 2 * RingNow[1][ColumnNow + 2][i]
  + 3 * RingNow[0][ColumnNow - 2][i] + 5 * RingNow[0][ColumnNow - 1][i]

PixelStepNext == pc = "loop" /\ y < height /\ x < width

Sign(s) == IF s < 0 THEN -1 ELSE IF s > 0 THEN 1 ELSE 0

\* every stored error of the ring negated
NegatedRing == [k \in 0..(errorRowCount - 1) |->
                  [c \in DOMAIN RingNow[k] |-> [i \in Comps |-> -RingNow[k][c][i]]]]

\* C22: diffuseColorDeltas returns, per component, the sum S of its ten
\* weighted taps rounded half away from zero, sign(S) * floor((|S| + 16) / 32);
\* negating every stored error negates the result.
C22_RoundsHalfAway ==
  PixelStepNext
  => /\ \A i \in Comps :
          diffuseColorDeltas(RingNow, ColumnNow)[i]
            = Sign(SierraTaps(i)) * ((Abs(SierraTaps(i)) + 16) \div 32)
     /\ diffuseColorDeltas(NegatedRing, ColumnNow)
          = [i \in Comps |-> -diffuseColorDeltas(RingNow, ColumnNow)[i]]

\* a negative sum exactly half way between two multiples of 32
C22_Witness ==
  /\ PixelStepNext /\ quantization >= 1
  /\ \E i \in Comps :
       /\ SierraTaps(i) < 0 /\ (-SierraTaps(i)) % 32 = 16
       /\ diffuseColorDeltas(RingNow, ColumnNow)[i] = -(((-SierraTaps(i)) \div 32) + 1)

Predicted3 == sample.fn = "paethPredictor" /\ sample.pc = "done"

\* |a + b - c - v| for the arguments of the call, in unbounded integers
PaethDistance(v) == Abs(sample.args[1] + sample.args[2] - sample.args[3] - v)

\* C23: paethPredictor(a, b, c) returns one of a, b, c that minimises
\* |a + b - c - candidate| computed without wrap-around; on ties it returns
\* a before b before c.
C23_PaethNearestInOrder ==
  Predicted3
  => LET a == sample.args[1]
         b == sample.args[2]
         c == sample.args[3]
         r == sample.result
     IN  /\ r \in {a, b, c}
         /\ \A v \in {a, b, c} : PaethDistance(r) <= PaethDistance(v)
         /\ PaethDistance(a) = PaethDistance(r) => r = a
         /\ (PaethDistance(a) # PaethDistance(r) /\ PaethDistance(b) = PaethDistance(r))
            => r = b

\* a tie between two different bytes, decided for the earlier argument
C23_Witness ==
  /\ Predicted3
  /\ sample.result = sample.args[1] /\ sample.args[3] # sample.args[1]
  /\ PaethDistance(sample.args[3]) = PaethDistance(sample.args[1])

\* a pixel step of the first row the optimizer processes has been taken
FirstRowStepDone ==
  /\ last.op \in {"avg", "paeth"} /\ "diffusion" \in DOMAIN last
  /\ last.y = FirstRow(ver)

\* 3 * colorError[0][x-2] + 5 * colorError[0][x-1] for the pixel of the last step
SameRowTaps(i) ==
    3 * RingNow[0][last.x + filterCenter - 2][i]
  + 5 * RingNow[0][last.x + filterCenter - 1][i]

\* C24: on the first row an optimizer processes, the two slots of the ring for
\* the rows above hold only zeros, the diffusion of every pixel is the rounded
\* sum of the errors recorded at x-2 and x-1 of the same row, and the first
\* processed pixel of the row has diffusion 0.
C24_FirstRowDiffusion ==
  FirstRowStepDone
  => /\ \A k \in 1..(errorRowCount - 1) :
          \A c \in DOMAIN RingNow[k] : RingNow[k][c] = ZeroDelta
     /\ last.diffusion = [i \in Comps |-> HalfAwayFromZero(SameRowTaps(i), 16, 32)]
     /\ last.x = FirstColumn(ver) => last.diffusion = ZeroDelta

\* a pixel of the first processed row that received error from its left
C24_Witness ==
  /\ FirstRowStepDone /\ quantization >= 1
  /\ last.x > FirstColumn(ver)
  /\ last.diffusion # ZeroDelta

\* colorError[0][x + filterCenter] for the pixel of the last step
StoredDelta == RingNow[0][last.x + filterCenter]

\* C25: after every pixel step of optimizeForPaethFilter the delta stored in
\* the current row's slot is colorDifference(palette[original index],
\* palette[committed index]) for the index written to the buffer, after an
\* early exit and after a scan.
C25_StoredDeltaIsCommitted ==
  PaethDecided
  => /\ last.here = orig[last.y * stride + last.x + 1]
     /\ StoredDelta = colorDifference(palette[last.here + 1], palette[Committed + 1])

\* a scan that settled on a colour other than the prediction and entry 0
C25_Witness ==
  /\ PaethDecided /\ quantization >= 1 /\ ~last.early
  /\ Committed \notin {last.paeth, last.here}
  /\ StoredDelta # ZeroDelta
  /\ StoredDelta # colorDifference(palette[last.here + 1], palette[last.paeth + 1])

\* C26: with q >= 1 every value optimizeForAverageFilter commits is the nearest
\* admissible one: |original byte + diffusion[c] - newValue| <= q / 2 (integer
\* division), whatever the sign of the predicted residual.
C26_NearestAdmissible ==
  (AvgStepDone /\ quantization >= 1)
  => \A c \in DOMAIN last.ch :
       InByte(last.ch[c].newValue)
       => Abs(last.ch[c].here + last.diffusion[c + 1] - last.ch[c].newValue)
            <= quantization \div 2

\* C27: for a fixed q >= 1 optimizeForAverageFilter applied a second time, with
\* the same parameters, to its own output changes no byte.
C27_Idempotent ==
  (AvgDone /\ quantization >= 1)
  => AvgResult(Params, pixels, quantization) = pixels

\* offsets of the stride padding: the bytes of each row past width * bytesPerPixel
PaddingOffsets ==
  {o \in 0..(stride * height - 1) : (o % stride) >= width * bytesPerPixel}

\* C28: no step of either optimizer changes a byte of the stride padding, the
\* length of the buffer or a palette entry; it changes only pixel bytes inside
\* the image area.
C28_FrameKept ==
  [][/\ palette' = palette
     /\ Len(pixels') = Len(pixels)
     /\ \A o \in PaddingOffsets : pixels'[o + 1] = pixels[o + 1]]_vars

\* a returned call that rewrote pixels of a padded buffer and kept the padding
C28_Witness ==
  /\ pc = "done" /\ quantization >= 1
  /\ stride > width * bytesPerPixel /\ height >= 3
  /\ pixels # orig /\ Len(pixels) = Len(orig)
  /\ \A o \in PaddingOffsets : pixels[o + 1] = orig[o + 1]

\* C29: for pairwise distinct input paths no two goroutines have created the
\* same output path at the same time: pathWithSuffix maps distinct inputs to
\* distinct outputs.
C29_NoSharedOutput ==
  \A v, w \in DOMAIN workers :
    (v # w /\ Created(v) /\ Created(w)) => workers[v].out # workers[w].out

====
